---- MODULE Spec2Model ----
(***************************************************************************)
(* Model of app.py: the Flask handlers register, vote and results over the *)
(* sqlite tables users and votes and the image files under voters/.        *)
(* Every database function opens its own connection and commits, so each   *)
(* is one atomic step; a handler is a sequence of such steps, and the      *)
(* handlers of concurrent requests interleave between them.                *)
(***************************************************************************)
EXTENDS Integers, Sequences, FiniteSets, TLC

\* ---------------------------------------------------------------- bounds
NumProcs == 2        \* request threads that may run at the same time
NumUsers == 2        \* distinct user_id values submitted in forms
NumCandidates == 2   \* distinct candidate values submitted in forms
NumImages == 2       \* distinct persons that may sit in front of the camera
MaxRequests == 3     \* requests started in one behaviour
MaxBallots == 3      \* rows of votes in the initial states of TallySpec

Procs == 1..NumProcs
UserIds == 1..NumUsers
Candidates == 1..NumCandidates
Images == 1..NumImages

\* Python None, SQL NULL, and "no such file": a path, an image or a user_id
\* that is absent.
None == 0

\* compare_images: "return score > 0.8", in hundredths.
Threshold == 80

\* cv2.compareHist with HISTCMP_CORREL returns a correlation, between -1.0 and
\* 1.0: in hundredths, between -ScoreMax and ScoreMax.
ScoreMax == 100

\* A row of users as get_user returns it; NoRow is fetchone() finding nothing.
\* A face_path / eye_path is the path f"voters/faces/{user_id}.jpg", which the
\* user_id determines: it is modelled by that user_id, or None.
NoRow == [user_id |-> None, face_path |-> None, eye_path |-> None, has_voted |-> 0]

VARIABLES
  users,       \* table users: user_id -> row, NoRow when no row has that user_id
  votes,       \* table votes: the rows in insertion (id) order
  faces,       \* files voters/faces/<user_id>.jpg: the image held, None if no file
  eyes,        \* files voters/eyes/<user_id>.jpg
  pc,          \* where each request thread is in its handler
  req,         \* the form of the thread's request: kind, user_id, candidate
  new_face,    \* vote / register: what capture_image(user_id, "face") returned
  new_eye,     \* vote / register: what capture_image(user_id, "eye") returned
  user,        \* vote: the row get_user returned
  img1,        \* compare_images: the first image read
  result,      \* the response the thread's last request returned
  vote_counts, \* results: what get_vote_counts returned
  nreq,        \* requests started so far
  frames,      \* capture_image: parity of the frames cap.read() has delivered
  score,       \* compare_images: the score compareHist returned (ThresholdSpec)
  matched,     \* compare_images: what it returned for that score (ThresholdSpec)
  enrolled,    \* history: the images the files held when add_user inserted the row
  captured,    \* history: the images the camera delivered to the thread's request
  committed    \* history: "Vote registered successfully!" responses returned,
               \* counted per (user_id, candidate)

vars == <<users, votes, faces, eyes, pc, req, new_face, new_eye, user, img1,
          result, vote_counts, nreq, frames, score, matched, enrolled, captured,
          committed>>

NoImages == [face |-> None, eye |-> None]

NoReq == [kind |-> "none", user_id |-> None, candidate |-> None]

\* create_db on an empty directory: both tables empty, no image files.
Init ==
  /\ users = [u \in UserIds |-> NoRow]
  /\ votes = << >>
  /\ faces = [u \in UserIds |-> None]
  /\ eyes = [u \in UserIds |-> None]
  /\ pc = [p \in Procs |-> "idle"]
  /\ req = [p \in Procs |-> NoReq]
  /\ new_face = [p \in Procs |-> None]
  /\ new_eye = [p \in Procs |-> None]
  /\ user = [p \in Procs |-> NoRow]
  /\ img1 = [p \in Procs |-> None]
  /\ result = [p \in Procs |-> "none"]
  /\ vote_counts = [p \in Procs |-> {}]
  /\ nreq = 0
  /\ frames = [p \in Procs |-> 0]
  /\ score = 0
  /\ matched = "none"
  /\ enrolled = [u \in UserIds |-> NoImages]
  /\ captured = [p \in Procs |-> NoImages]
  /\ committed = [b \in UserIds \X Candidates |-> 0]

\* A thread is free to take a request before its first one and after each one.
Free(p) == pc[p] \in {"idle", "done"}

\* ------------------------------------------------------ database functions

\* get_user: SELECT * FROM users WHERE user_id=?, fetchone.
get_user(user_id) == users[user_id]

\* Faulty variant of has_already_voted: tests a column that never holds 1, so
\* it answers False for every user.
has_already_voted_never(user_id) == FALSE

\* has_already_voted: user[4] == 1 if user else False.
has_already_voted(user_id) ==
  LET u == get_user(user_id) IN
  IF u # NoRow THEN u.has_voted = 1 ELSE FALSE

\* Faulty variant of add_user: INSERT OR REPLACE, which never fails and
\* replaces the row of a user_id that is taken.
add_user_replaces(user_id) == TRUE

\* add_user: the INSERT fails with IntegrityError when user_id is taken
\* (user_id TEXT UNIQUE); otherwise the row is inserted with has_voted DEFAULT 0.
add_user_ok(user_id) == users[user_id] = NoRow

add_user_row(user_id, face_path, eye_path) ==
  [user_id |-> user_id, face_path |-> face_path, eye_path |-> eye_path,
   has_voted |-> 0]

\* mark_voted: UPDATE users SET has_voted=1 WHERE user_id=? (no row: no change).
mark_voted(user_id) ==
  IF users[user_id] = NoRow THEN users
  ELSE [users EXCEPT ![user_id].has_voted = 1]

\* Faulty variant of save_vote: the two values are bound in the wrong order.
save_vote_swapped(user_id, candidate) ==
  Append(votes, [voter_id |-> candidate, candidate |-> user_id])

\* save_vote: INSERT INTO votes (voter_id, candidate); the table has no
\* constraint besides its autoincrement id.
save_vote(user_id, candidate) ==
  Append(votes, [voter_id |-> user_id, candidate |-> candidate])

\* get_vote_counts: SELECT candidate, COUNT(*) FROM votes GROUP BY candidate.
\* COUNT(*) of one group, computed by a scan of the rows.
RECURSIVE CountRows(_, _)
CountRows(rows, candidate) ==
  IF rows = << >> THEN 0
  ELSE (IF Head(rows).candidate = candidate THEN 1 ELSE 0)
       + CountRows(Tail(rows), candidate)

\* Faulty variant of get_vote_counts: COUNT(*) taken over the whole table
\* instead of over the candidate's group.
get_vote_counts_ungrouped ==
  { <<c, Len(votes)>> : c \in {votes[i].candidate : i \in DOMAIN votes} }

\* One (candidate, count) pair per group; a group exists for each candidate
\* value found in some row.  fetchall gives the pairs in no promised order.
get_vote_counts ==
  { <<c, CountRows(votes, c)>> : c \in {votes[i].candidate : i \in DOMAIN votes} }

\* ------------------------------------------------------------ image capture

\* capture_image: the camera delivers a frame in which the cascade detects
\* the face (eye) of the person in front of it, img, which is written to
\* voters/faces/<user_id>.jpg (cv2.imwrite replaces the file) and whose path is
\* returned; or ESC is pressed first (img = None): nothing is written and None
\* is returned.
\* (capture_write_shared is a faulty variant: one file name for every user.)
capture_write_shared(files, user_id, img) ==
  IF img = None THEN files ELSE [u \in DOMAIN files |-> img]

capture_write(files, user_id, img) ==
  IF img = None THEN files ELSE [files EXCEPT ![user_id] = img]

capture_path(user_id, img) ==
  IF img = None THEN None ELSE user_id

\* ----------------------------------------------------------- image matching

\* cv2.imread(path, 0): the image the file holds, None when there is no file.
\* Given None for the path (a capture that returned None, a NULL column), the
\* binding reads it as the empty file name, which names no file: None again,
\* the case compare_images tests with "if img1 is None or img2 is None".
imread(files, path) ==
  IF path = None THEN None ELSE files[path]

\* cv2.compareHist(hist1, hist2, HISTCMP_CORREL) of the two resized grayscale
\* images, in hundredths: 1.0 for the same image, lower the further apart the
\* two persons are, never below -1.0.
Score(a, b) ==
  LET d == IF a >= b THEN a - b ELSE b - a
      s == ScoreMax - 50 * d
  IN IF s < -ScoreMax THEN -ScoreMax ELSE s

\* Faulty variant of the threshold test: score >= 0.8.
at_least_threshold(s) == s >= Threshold

\* compare_images: "score > 0.8".
above_threshold(s) == s > Threshold

\* Faulty variant of compare_images: the test for a missing image returns
\* True.
compare_images_missing_ok(a, b) ==
  IF a = None \/ b = None THEN TRUE ELSE Score(a, b) > Threshold

\* compare_images once both images are read: False when either is None,
\* otherwise score > 0.8.
compare_images(a, b) ==
  IF a = None \/ b = None THEN FALSE ELSE above_threshold(Score(a, b))

\* Faulty variant of vote's "if not user": the test is left out.
user_missing_never(row) == FALSE

\* vote: "if not user".
user_missing(row) == row = NoRow

\* ------------------------------------------------------------------ requests

\* A request arrives on a free thread: Flask calls the handler with the form.
Begin(p, kind, entry, user_id, candidate) ==
  /\ Free(p)
  /\ nreq < MaxRequests
  /\ nreq' = nreq + 1
  /\ req' = [req EXCEPT ![p] =
               [kind |-> kind, user_id |-> user_id, candidate |-> candidate]]
  /\ pc' = [pc EXCEPT ![p] = entry]
  /\ result' = [result EXCEPT ![p] = "none"]
  /\ vote_counts' = [vote_counts EXCEPT ![p] = {}]
  /\ captured' = [captured EXCEPT ![p] = NoImages]
  /\ UNCHANGED <<users, votes, faces, eyes, new_face, new_eye, user, img1, enrolled>>
  /\ UNCHANGED <<frames, score, matched, committed>>

BeginRegister(p, user_id) == Begin(p, "register", "r_face", user_id, None)

BeginVote(p, user_id, candidate) == Begin(p, "vote", "v_check", user_id, candidate)

BeginResults(p) == Begin(p, "results", "t_query", None, None)

\* The handler returns res: the thread is free again and its locals are gone.
Return(p, res) ==
  /\ committed' = IF res = "Committed"
                    THEN [committed EXCEPT ![<<req[p].user_id, req[p].candidate>>] = @ + 1]
                    ELSE committed
  /\ UNCHANGED <<frames, score, matched>>
  /\ pc' = [pc EXCEPT ![p] = "done"]
  /\ result' = [result EXCEPT ![p] = res]
  /\ new_face' = [new_face EXCEPT ![p] = None]
  /\ new_eye' = [new_eye EXCEPT ![p] = None]
  /\ user' = [user EXCEPT ![p] = NoRow]
  /\ img1' = [img1 EXCEPT ![p] = None]

Goto(p, label) ==
  /\ pc' = [pc EXCEPT ![p] = label]
  /\ UNCHANGED <<result, frames, score, matched, committed>>

\* ------------------------------------------------------------------ register

\* register: face_path = capture_image(user_id, "face").
RegisterCaptureFace(p, img) ==
  /\ pc[p] = "r_face"
  /\ faces' = capture_write(faces, req[p].user_id, img)
  /\ new_face' = [new_face EXCEPT ![p] = capture_path(req[p].user_id, img)]
  /\ captured' = [captured EXCEPT ![p].face = img]
  /\ Goto(p, "r_eye")
  /\ UNCHANGED <<users, votes, eyes, req, new_eye, user, img1, vote_counts, nreq, enrolled>>

\* register: eye_path = capture_image(user_id, "eye").
RegisterCaptureEye(p, img) ==
  /\ pc[p] = "r_eye"
  /\ eyes' = capture_write(eyes, req[p].user_id, img)
  /\ new_eye' = [new_eye EXCEPT ![p] = capture_path(req[p].user_id, img)]
  /\ captured' = [captured EXCEPT ![p].eye = img]
  /\ Goto(p, "r_add")
  /\ UNCHANGED <<users, votes, faces, req, new_face, user, img1, vote_counts, nreq, enrolled>>

\* register: if add_user(user_id, face_path, eye_path): "registered
\* successfully" else "User already exists!".
RegisterAddUser(p) ==
  LET u == req[p].user_id IN
  /\ pc[p] = "r_add"
  /\ IF add_user_ok(u)
       THEN /\ users' = [users EXCEPT ![u] = add_user_row(u, new_face[p], new_eye[p])]
            /\ enrolled' = [enrolled EXCEPT ![u] =
                              [face |-> imread(faces, new_face[p]),
                               eye |-> imread(eyes, new_eye[p])]]
            /\ Return(p, "Registered")
       ELSE /\ UNCHANGED <<users, enrolled>>
            /\ Return(p, "AlreadyExists")
  /\ UNCHANGED <<votes, faces, eyes, req, vote_counts, nreq, captured>>

\* ---------------------------------------------------------------------- vote

\* Faulty variant of the first step of vote: the voter is marked voted as soon
\* as the check finds them eligible, before the verification.
VoteCheck_marks(p) ==
  /\ pc[p] = "v_check"
  /\ IF has_already_voted(req[p].user_id)
       THEN Return(p, "Conflict") /\ UNCHANGED users
       ELSE /\ users' = mark_voted(req[p].user_id)
            /\ Goto(p, "v_face")
            /\ UNCHANGED <<new_face, new_eye, user, img1>>
  /\ UNCHANGED <<votes, faces, eyes, req, vote_counts, nreq, enrolled, captured>>

\* Faulty variant of the first step of vote: the face is captured before
\* has_already_voted is consulted.
VoteCheck_captures_first(p) ==
  /\ pc[p] = "v_check"
  /\ \E img \in Images \cup {None} :
       /\ faces' = capture_write(faces, req[p].user_id, img)
       /\ captured' = [captured EXCEPT ![p].face = img]
       /\ IF has_already_voted(req[p].user_id)
            THEN Return(p, "Conflict")
            ELSE /\ new_face' = [new_face EXCEPT ![p] = capture_path(req[p].user_id, img)]
                 /\ Goto(p, "v_eye")
                 /\ UNCHANGED <<new_eye, user, img1>>
  /\ UNCHANGED <<users, votes, eyes, req, vote_counts, nreq, enrolled>>

\* vote: if has_already_voted(user_id): return "You have already voted!".
VoteCheck(p) ==
  /\ pc[p] = "v_check"
  /\ IF has_already_voted(req[p].user_id)
       THEN Return(p, "Conflict")
       ELSE Goto(p, "v_face") /\ UNCHANGED <<new_face, new_eye, user, img1>>
  /\ UNCHANGED <<users, votes, faces, eyes, req, vote_counts, nreq, enrolled, captured>>

\* vote: new_face = capture_image(user_id, "face"): the same file the
\* registration wrote.
VoteCaptureFace(p, img) ==
  /\ pc[p] = "v_face"
  /\ faces' = capture_write(faces, req[p].user_id, img)
  /\ new_face' = [new_face EXCEPT ![p] = capture_path(req[p].user_id, img)]
  /\ captured' = [captured EXCEPT ![p].face = img]
  /\ Goto(p, "v_eye")
  /\ UNCHANGED <<users, votes, eyes, req, new_eye, user, img1, vote_counts, nreq, enrolled>>

\* vote: new_eye = capture_image(user_id, "eye").
VoteCaptureEye(p, img) ==
  /\ pc[p] = "v_eye"
  /\ eyes' = capture_write(eyes, req[p].user_id, img)
  /\ new_eye' = [new_eye EXCEPT ![p] = capture_path(req[p].user_id, img)]
  /\ captured' = [captured EXCEPT ![p].eye = img]
  /\ Goto(p, "v_getuser")
  /\ UNCHANGED <<users, votes, faces, req, new_face, user, img1, vote_counts, nreq, enrolled>>

\* vote: user = get_user(user_id); if not user: return "User not found!".
VoteGetUser(p) ==
  LET row == get_user(req[p].user_id) IN
  /\ pc[p] = "v_getuser"
  /\ IF user_missing(row)
       THEN Return(p, "NotFound")
       ELSE /\ user' = [user EXCEPT ![p] = row]
            /\ Goto(p, "v_cmpface1")
            /\ UNCHANGED <<new_face, new_eye, img1>>
  /\ UNCHANGED <<users, votes, faces, eyes, req, vote_counts, nreq, enrolled, captured>>

\* compare_images: img1 = cv2.imread(img1_path, 0).
ReadFirst(p, files, path, label) ==
  /\ img1' = [img1 EXCEPT ![p] = imread(files, path)]
  /\ Goto(p, label)
  /\ UNCHANGED <<new_face, new_eye, user>>
  /\ UNCHANGED <<users, votes, faces, eyes, req, vote_counts, nreq, enrolled, captured>>

\* compare_images: img2 = cv2.imread(img2_path, 0) and the rest of the
\* function; on False the condition of vote's "if ... and ..." is false and the
\* handler returns "Verification failed! Vote not registered.".
ReadSecond(p, files, path, label) ==
  /\ IF compare_images(img1[p], imread(files, path))
       THEN /\ img1' = [img1 EXCEPT ![p] = None]
            /\ Goto(p, label)
            /\ UNCHANGED <<new_face, new_eye, user>>
       ELSE Return(p, "Rejected")
  /\ UNCHANGED <<users, votes, faces, eyes, req, vote_counts, nreq, enrolled, captured>>

\* vote: compare_images(new_face, registered_face), registered_face = user[2].
VoteCompareFace1(p) ==
  /\ pc[p] = "v_cmpface1"
  /\ ReadFirst(p, faces, new_face[p], "v_cmpface2")

VoteCompareFace2(p) ==
  /\ pc[p] = "v_cmpface2"
  /\ ReadSecond(p, faces, user[p].face_path, "v_cmpeye1")

\* vote: "and compare_images(new_eye, registered_eye)", registered_eye =
\* user[3]; evaluated only when the face comparison returned True.
VoteCompareEye1(p) ==
  /\ pc[p] = "v_cmpeye1"
  /\ ReadFirst(p, eyes, new_eye[p], "v_cmpeye2")

VoteCompareEye2(p) ==
  /\ pc[p] = "v_cmpeye2"
  /\ ReadSecond(p, eyes, user[p].eye_path, "v_save")

\* vote: save_vote(user_id, candidate).
VoteSave(p) ==
  /\ pc[p] = "v_save"
  /\ votes' = save_vote(req[p].user_id, req[p].candidate)
  /\ Goto(p, "v_mark")
  /\ UNCHANGED <<users, faces, eyes, req, new_face, new_eye, user, img1,
                 vote_counts, nreq, enrolled, captured>>

\* vote: mark_voted(user_id); return "Vote registered successfully!".
VoteMark(p) ==
  /\ pc[p] = "v_mark"
  /\ users' = mark_voted(req[p].user_id)
  /\ Return(p, "Committed")
  /\ UNCHANGED <<votes, faces, eyes, req, vote_counts, nreq, enrolled, captured>>

\* ------------------------------------------------------------------- results

\* results: vote_counts = get_vote_counts(), handed to the template.
ResultsQuery(p) ==
  /\ pc[p] = "t_query"
  /\ vote_counts' = [vote_counts EXCEPT ![p] = get_vote_counts]
  /\ Return(p, "Results")
  /\ UNCHANGED <<users, votes, faces, eyes, req, nreq, enrolled, captured>>

\* ------------------------------------------------------------- specification

Shots == Images \cup {None}

Next ==
  \E p \in Procs :
    \/ \E u \in UserIds : BeginRegister(p, u)
    \/ \E u \in UserIds, c \in Candidates : BeginVote(p, u, c)
    \/ BeginResults(p)
    \/ \E img \in Shots : RegisterCaptureFace(p, img)
    \/ \E img \in Shots : RegisterCaptureEye(p, img)
    \/ RegisterAddUser(p)
    \/ VoteCheck(p)
    \/ \E img \in Shots : VoteCaptureFace(p, img)
    \/ \E img \in Shots : VoteCaptureEye(p, img)
    \/ VoteGetUser(p)
    \/ VoteCompareFace1(p)
    \/ VoteCompareFace2(p)
    \/ VoteCompareEye1(p)
    \/ VoteCompareEye2(p)
    \/ VoteSave(p)
    \/ VoteMark(p)
    \/ ResultsQuery(p)

\* The next statement of the handler thread p is running.
HandlerStep(p) ==
  \/ \E img \in Shots : RegisterCaptureFace(p, img)
  \/ \E img \in Shots : RegisterCaptureEye(p, img)
  \/ RegisterAddUser(p)
  \/ VoteCheck(p)
  \/ \E img \in Shots : VoteCaptureFace(p, img)
  \/ \E img \in Shots : VoteCaptureEye(p, img)
  \/ VoteGetUser(p)
  \/ VoteCompareFace1(p)
  \/ VoteCompareFace2(p)
  \/ VoteCompareEye1(p)
  \/ VoteCompareEye2(p)
  \/ VoteSave(p)
  \/ VoteMark(p)
  \/ ResultsQuery(p)

Spec == Init /\ [][Next]_vars

\* ------------------------------------------------- the capture loop, fairly run

LiveRequests == 2

CaptureLabels == {"r_face", "r_eye", "v_face", "v_eye"}

\* capture_image, one turn of `while True` that neither detects nor sees ESC:
\* cap.read() gave no frame (`continue`), or the cascade found nothing and
\* waitKey(1) returned no ESC.  The thread stays in the loop.
CaptureMiss(p) ==
  /\ pc[p] \in CaptureLabels
  /\ frames' = [frames EXCEPT ![p] = 1 - @]
  /\ UNCHANGED <<users, votes, faces, eyes, pc, req, new_face, new_eye, user,
                 img1, result, vote_counts, nreq, score, matched, enrolled,
                 captured, committed>>

LiveNext ==
  \E p \in Procs :
    \/ nreq < LiveRequests /\ \E u \in UserIds : BeginRegister(p, u)
    \/ nreq < LiveRequests /\ \E u \in UserIds, c \in Candidates : BeginVote(p, u, c)
    \/ nreq < LiveRequests /\ BeginResults(p)
    \/ HandlerStep(p)
    \/ CaptureMiss(p)

\* Fair scheduling: a handler thread that can run its next statement (a turn
\* of the capture loop included) is not left waiting forever.
LiveSpec ==
  /\ Init
  /\ [][LiveNext]_vars
  /\ \A p \in Procs : WF_vars(HandlerStep(p) \/ CaptureMiss(p))

\* compare_images from the score on: every score compareHist can return, and
\* the threshold test applied to it.
ThresholdInit ==
  /\ score \in (-ScoreMax)..ScoreMax
  /\ matched = "none"
  /\ users = [u \in UserIds |-> NoRow]
  /\ votes = << >>
  /\ faces = [u \in UserIds |-> None]
  /\ eyes = [u \in UserIds |-> None]
  /\ pc = [p \in Procs |-> "idle"]
  /\ req = [p \in Procs |-> NoReq]
  /\ new_face = [p \in Procs |-> None]
  /\ new_eye = [p \in Procs |-> None]
  /\ user = [p \in Procs |-> NoRow]
  /\ img1 = [p \in Procs |-> None]
  /\ result = [p \in Procs |-> "none"]
  /\ vote_counts = [p \in Procs |-> {}]
  /\ nreq = 0
  /\ frames = [p \in Procs |-> 0]
  /\ enrolled = [u \in UserIds |-> NoImages]
  /\ captured = [p \in Procs |-> NoImages]
  /\ committed = [b \in UserIds \X Candidates |-> 0]

\* compare_images: return score > 0.8.
CompareScore ==
  /\ matched = "none"
  /\ matched' = IF above_threshold(score) THEN "match" ELSE "reject"
  /\ UNCHANGED <<users, votes, faces, eyes, pc, req, new_face, new_eye, user, img1,
                 result, vote_counts, nreq, frames, score, enrolled, captured,
                 committed>>

ThresholdSpec == ThresholdInit /\ [][CompareScore]_vars

\* The results page over every votes table of up to MaxBallots rows.  Each
\* such table is one the program can hold: every voter in it is enrolled and
\* marked voted, and a voter_id may repeat, since votes has no uniqueness
\* constraint (C1, C2).
TallyInit ==
  /\ votes \in UNION { [1..n -> [voter_id : UserIds, candidate : Candidates]] :
                       n \in 0..MaxBallots }
  /\ users = [u \in UserIds |->
                [user_id |-> u, face_path |-> u, eye_path |-> u,
                 has_voted |-> IF \E i \in DOMAIN votes : votes[i].voter_id = u
                                 THEN 1 ELSE 0]]
  /\ faces = [u \in UserIds |-> 1]
  /\ eyes = [u \in UserIds |-> 1]
  /\ enrolled = [u \in UserIds |-> [face |-> 1, eye |-> 1]]
  /\ pc = [p \in Procs |-> "idle"]
  /\ req = [p \in Procs |-> NoReq]
  /\ new_face = [p \in Procs |-> None]
  /\ new_eye = [p \in Procs |-> None]
  /\ user = [p \in Procs |-> NoRow]
  /\ img1 = [p \in Procs |-> None]
  /\ result = [p \in Procs |-> "none"]
  /\ vote_counts = [p \in Procs |-> {}]
  /\ nreq = 0
  /\ frames = [p \in Procs |-> 0]
  /\ score = 0
  /\ matched = "none"
  /\ captured = [p \in Procs |-> NoImages]
  /\ committed = [b \in UserIds \X Candidates |->
                    Cardinality({i \in DOMAIN votes :
                                   votes[i].voter_id = b[1] /\ votes[i].candidate = b[2]})]

TallyNext ==
  \E p \in Procs :
    \/ BeginResults(p)
    \/ ResultsQuery(p)

TallySpec == TallyInit /\ [][TallyNext]_vars

\* -------------------------------------------------------------------- claims

Done(p) == pc[p] = "done"

VoteOf(p, u) == req[p].kind = "vote" /\ req[p].user_id = u

Enrolled(u) == users[u] # NoRow

Voted(u) == Enrolled(u) /\ users[u].has_voted = 1

BallotsOf(u) == {i \in DOMAIN votes : votes[i].voter_id = u}

\* The samples the camera delivered to p's request are those of the person
\* whose templates the enrollment of u stored.
SamplesMatchEnrollment(p, u) ==
  /\ compare_images(captured[p].face, enrolled[u].face)
  /\ compare_images(captured[p].eye, enrolled[u].eye)

\* C1: no double voting.  When every thread has finished a vote attempt for
\* the same enrolled voter, each started while the voter was eligible and each
\* with samples that match the enrollment, exactly one of the attempts
\* returned Committed and the others returned Conflict or Rejected.
C1_NoDoubleVoting ==
  \A u \in UserIds :
    (\A p \in Procs : /\ Done(p)
                      /\ VoteOf(p, u)
                      /\ Enrolled(u)
                      /\ result[p] # "NotFound"
                      /\ SamplesMatchEnrollment(p, u))
    => /\ Cardinality({p \in Procs : result[p] = "Committed"}) = 1
       /\ \A p \in Procs : result[p] \in {"Committed", "Conflict", "Rejected"}

\* C2: in every reachable state the votes table holds at most one ballot per
\* voter_id.
C2_AtMostOneBallot ==
  \A u \in UserIds : Cardinality(BallotsOf(u)) <= 1

\* C3: the commit is atomic.  In every state (each is observable by the other
\* requests) a ballot exists for a voter_id exactly when that voter's
\* has_voted is 1.
C3_AtomicCommit ==
  \A u \in UserIds : (BallotsOf(u) # {}) <=> Voted(u)

\* C4: no vote without passing verification.  A vote attempt that returned
\* Committed captured a face and an eye that both match the templates stored
\* when the voter was enrolled.
C4_CommittedOnlyIfVerified ==
  \A p \in Procs :
    (Done(p) /\ req[p].kind = "vote" /\ result[p] = "Committed")
    => SamplesMatchEnrollment(p, req[p].user_id)

VoteLabels == {"v_check", "v_face", "v_eye", "v_getuser", "v_cmpface1",
               "v_cmpface2", "v_cmpeye1", "v_cmpeye2", "v_save", "v_mark"}

RegisterLabels == {"r_face", "r_eye", "r_add"}

\* Thread p takes a step of its handler (each step moves its pc).
Steps(p) == pc'[p] # pc[p]

Failures == {"Rejected", "NotFound", "Conflict"}

\* C5: no failure path mutates voter status or the ballot store.  The only
\* steps of a vote attempt that change users or votes are save_vote and
\* mark_voted, an attempt that reached them returns Committed, and the step
\* that returns Rejected, NotFound or Conflict changes neither table: an
\* attempt that ends Rejected has not changed the voter's status and has added
\* no ballot.
C5_FailurePathsDoNotMutate ==
  [][\A p \in Procs :
       (pc[p] \in VoteLabels /\ Steps(p))
       => /\ (users' # users \/ votes' # votes) => pc[p] \in {"v_save", "v_mark"}
          /\ pc[p] = "v_save" => pc'[p] = "v_mark"
          /\ pc[p] = "v_mark" => result'[p] = "Committed"
          /\ result'[p] \in Failures => (users' = users /\ votes' = votes)]_vars

\* A vote attempt for an enrolled voter has returned Rejected; the voter is
\* still eligible and has no ballot.
C5_Witness ==
  \E p \in Procs :
    /\ Done(p) /\ req[p].kind = "vote" /\ result[p] = "Rejected"
    /\ Enrolled(req[p].user_id) /\ ~Voted(req[p].user_id)
    /\ BallotsOf(req[p].user_id) = {}

\* C6: enrollment is create-only.  The add_user of a register request for a
\* user_id without a record returns Ok and creates the record, eligible; no
\* step of a register request for a user_id that has a record changes the
\* record or the face and eye templates stored for it, and such a request
\* returns AlreadyEnrolled.
C6_EnrollCreateOnly ==
  [][\A p \in Procs :
       LET u == req[p].user_id IN
       (pc[p] \in RegisterLabels /\ Steps(p))
       => /\ (pc[p] = "r_add" /\ ~Enrolled(u))
               => (result'[p] = "Registered" /\ users'[u].user_id = u
                   /\ users'[u].has_voted = 0)
          /\ Enrolled(u)
               => /\ users' = users
                  /\ imread(faces', users[u].face_path) = imread(faces, users[u].face_path)
                  /\ imread(eyes', users[u].eye_path) = imread(eyes, users[u].eye_path)
                  /\ pc[p] = "r_add" => result'[p] = "AlreadyExists"]_vars

\* C7: unknown voter.  A vote attempt for a user_id that has no record changes
\* neither users nor votes at any of its steps, gets no further than get_user,
\* and returns NotFound whatever the two captures delivered.
C7_UnknownVoterNotFound ==
  [][\A p \in Procs :
       (pc[p] \in VoteLabels /\ Steps(p) /\ ~Enrolled(req[p].user_id))
       => /\ users' = users /\ votes' = votes
          /\ pc'[p] \in {"v_face", "v_eye", "v_getuser", "done"}
          /\ pc'[p] = "done" => result'[p] = "NotFound"]_vars

\* A vote attempt for a user_id without a record has returned NotFound after
\* capturing a face; there is still no record and no ballot for it.
C7_Witness ==
  \E p \in Procs :
    /\ Done(p) /\ req[p].kind = "vote" /\ result[p] = "NotFound"
    /\ captured[p].face # None
    /\ ~Enrolled(req[p].user_id) /\ BallotsOf(req[p].user_id) = {}

\* C8: voter status is monotonic.  A record is created with has_voted = 0; a
\* record, once there, stays, its user_id and paths never change, and its
\* has_voted never decreases.
C8_StatusMonotonic ==
  [][\A u \in UserIds :
       /\ (~Enrolled(u) /\ Enrolled(u)') => users'[u].has_voted = 0
       /\ Enrolled(u)
            => /\ users'[u].has_voted \in {0, 1}
               /\ users'[u].has_voted >= users[u].has_voted
               /\ [users'[u] EXCEPT !.has_voted = 0] = [users[u] EXCEPT !.has_voted = 0]]_vars

\* A register request for a voter who has voted has returned; the voter is
\* still Voted.
C8_Witness ==
  \E p \in Procs :
    /\ Done(p) /\ req[p].kind = "register" /\ result[p] = "AlreadyExists"
    /\ Voted(req[p].user_id)

\* C10: idempotent retry.  Once a voter's has_voted is 1 (the step that sets
\* it is the one that returns Committed), every vote attempt for that voter
\* whose has_already_voted check comes later returns Conflict at that check and
\* changes neither users nor votes.
C10_RetryAfterCommit ==
  [][\A p \in Procs :
       (pc[p] = "v_check" /\ Steps(p) /\ Voted(req[p].user_id))
       => /\ pc'[p] = "done" /\ result'[p] = "Conflict"
          /\ users' = users /\ votes' = votes]_vars

\* A vote attempt for a voter with a committed ballot has returned Conflict,
\* for another candidate than the ballot's; the voter still has that one
\* ballot.
C10_Witness ==
  \E p \in Procs :
    LET u == req[p].user_id IN
    /\ Done(p) /\ req[p].kind = "vote" /\ result[p] = "Conflict"
    /\ Voted(u)
    /\ Cardinality(BallotsOf(u)) = 1
    /\ \A i \in BallotsOf(u) : votes[i].candidate # req[p].candidate

BallotsFor(c) == {i \in DOMAIN votes : votes[i].candidate = c}

\* C9: tally correctness.  The step of the results page that calls
\* get_vote_counts returns, for each candidate with at least one ballot, one
\* pair, carrying exactly the number of ballots stored for that candidate,
\* and changes neither votes nor users.
C9_TallyCorrect ==
  [][\A p \in Procs :
       (pc[p] = "t_query" /\ Steps(p))
       => /\ \A c \in Candidates :
               BallotsFor(c) # {}
               => {t \in vote_counts'[p] : t[1] = c}
                    = {<<c, Cardinality(BallotsFor(c))>>}
          /\ votes' = votes /\ users' = users]_vars

\* The results page has returned {A: 2, B: 1} over the three ballots A, B, A.
C9_Witness ==
  \E p \in Procs :
    /\ Done(p) /\ result[p] = "Results"
    /\ Len(votes) = 3
    /\ votes[1].candidate = 1 /\ votes[2].candidate = 2 /\ votes[3].candidate = 1
    /\ vote_counts[p] = {<<1, 2>>, <<2, 1>>}

\* C11: a capture failure is never an accept.  Once the face or the eye
\* capture of a vote attempt for an enrolled voter has returned None, no step
\* of the attempt reaches save_vote or mark_voted or adds a ballot, and the
\* attempt returns Rejected.
C11_CaptureFailureRejected ==
  [][\A p \in Procs :
       (/\ pc[p] \in VoteLabels /\ Steps(p)
        /\ Enrolled(req[p].user_id)
        /\ \/ pc[p] \in (VoteLabels \ {"v_check", "v_face"}) /\ new_face[p] = None
           \/ pc[p] \in (VoteLabels \ {"v_check", "v_face", "v_eye"}) /\ new_eye[p] = None)
       => /\ pc'[p] \notin {"v_save", "v_mark"}
          /\ votes' = votes /\ users' = users
          /\ pc'[p] = "done" => result'[p] = "Rejected"]_vars

\* A vote attempt for a voter enrolled with both templates has returned
\* Rejected after its eye capture returned None though its face capture
\* matched; the voter has no ballot.
C11_Witness ==
  \E p \in Procs :
    LET u == req[p].user_id IN
    /\ Done(p) /\ req[p].kind = "vote" /\ result[p] = "Rejected"
    /\ enrolled[u].face # None /\ enrolled[u].eye # None
    /\ captured[p].face = enrolled[u].face /\ captured[p].eye = None
    /\ BallotsOf(u) = {}

\* The rows of a votes table that belong to voter a, in order.
BallotRows(table, a) == SelectSeq(table, LAMBDA b : b.voter_id = a)

\* What a request thread holds.
Thread(p) == <<pc[p], req[p], new_face[p], new_eye[p], user[p], img1[p], result[p]>>

C13_ShortCircuit ==
  [][\A p \in Procs :
       (pc[p] = "v_check" /\ Steps(p) /\ Voted(req[p].user_id))
       => /\ pc'[p] = "done" /\ result'[p] = "Conflict"
          /\ faces' = faces /\ eyes' = eyes
          /\ captured'[p] = NoImages
          /\ new_face'[p] = None /\ new_eye'[p] = None /\ img1'[p] = None]_vars

\* A vote attempt for a voted voter has returned Conflict without any capture.
C13_Witness ==
  \E p \in Procs :
    /\ Done(p) /\ req[p].kind = "vote" /\ result[p] = "Conflict"
    /\ Voted(req[p].user_id)
    /\ captured[p] = NoImages

\* C14 as claimed: a comparison counts as a match exactly when its score is
\* greater than or equal to the threshold 0.8; a score equal to the
\* threshold is a match.
C14_ThresholdInclusive ==
  matched # "none" => (matched = "match" <=> score >= Threshold)

\* C14 as amended: a comparison counts as a match exactly when its score is
\* strictly greater than the threshold 0.8 (one threshold, the same for face
\* and eye); a score equal to the threshold, or below it, is a Reject.
C14_ThresholdStrict ==
  matched # "none"
  => /\ matched \in {"match", "reject"}
     /\ matched = "match" <=> score > Threshold

\* The score 0.8 itself has been compared, and rejected.
C14_Witness ==
  score = Threshold /\ matched = "reject"

\* The face and eye templates stored for an enrolled voter: what the files
\* named by the row's face_path and eye_path hold.
Templates(fs, es, u) ==
  [face |-> imread(fs, users[u].face_path), eye |-> imread(es, users[u].eye_path)]

VerifyLabels == {"v_face", "v_eye", "v_getuser", "v_cmpface1", "v_cmpface2",
                 "v_cmpeye1", "v_cmpeye2"}

\* C15: the verification step has no side effects on shared state.  No step
\* of a vote attempt from its first capture to the end of its last comparison
\* changes the face or eye template of any enrolled voter, any row of users,
\* or votes.
C15_VerificationNoSideEffects ==
  [][\A p \in Procs :
       (pc[p] \in VerifyLabels /\ Steps(p))
       => /\ users' = users /\ votes' = votes
          /\ \A u \in UserIds :
               Enrolled(u) => Templates(faces', eyes', u) = Templates(faces, eyes, u)]_vars

\* C16: every ballot was written by exactly one Committed attempt and carries
\* its voter_id and candidate.  In every reachable state, for each voter and
\* candidate, the number of ballots stored with that voter_id and candidate
\* equals the number of Committed responses returned to vote attempts of that
\* voter for that candidate.
C16_BallotsAreCommittedAttempts ==
  \A u \in UserIds, c \in Candidates :
    Cardinality({i \in DOMAIN votes :
                   votes[i].voter_id = u /\ votes[i].candidate = c})
      = committed[<<u, c>>]

C18_CompleteEnrollment ==
  \A u \in UserIds :
    Enrolled(u) => users[u].face_path # None /\ users[u].eye_path # None

VoteOutcomes == {"NotFound", "Conflict", "Rejected", "Committed"}

\* C19: termination.  Under fair scheduling every vote attempt that has
\* started eventually returns one of NotFound, Conflict, Rejected and
\* Committed: it does not stay forever in capture, in verification or
\* between save_vote and mark_voted.
C19_Termination ==
  \A p \in Procs :
    (pc[p] \in VoteLabels) ~> (Done(p) /\ result[p] \in VoteOutcomes)

====
